---- MODULE Spec2Model ----
(***************************************************************************)
(* Model of the PII detection demo (src/streamlit_main.py): the rule       *)
(* registration of PIIDetector, the text pass (analyze_text,               *)
(* display_results, anonymize_text) and the tabular pass                   *)
(* (analyze_dataframe, anonymize_dataframe).                               *)
(*                                                                         *)
(* Strings are sequences of characters; offsets are Python's 0-based,      *)
(* half-open [start, end).  The Presidio engines are external              *)
(* collaborators: what the repository's code receives from them is drawn   *)
(* nondeterministically from the values their interface admits.            *)
(***************************************************************************)
EXTENDS Integers, Sequences, FiniteSets, TLC

VARIABLES
    pc,           \* position of the script run
    registry,     \* detector.analyzer.registry: sequence of recognizers
    text,         \* the text unit of the text pass (content / quick_text)
    raw,          \* spans the recognizers yielded (tabular pass: with their cell)
    findings,     \* the list analyze_text returned
    highlighted,  \* display_results' highlighted string
    anonymized,   \* anonymize_text's result
    df,           \* the input table: df[c][r], a cell is NoValue or a string
    results,      \* analyze_dataframe's result rows
    col,          \* analyze_dataframe: position in df.columns (1-based)
    idx,          \* analyze_dataframe: enumerate() counter over df[col].dropna()
    df_safe,      \* anonymize_dataframe's copy
    k,            \* anonymize_dataframe: position in results_df.iterrows()
    err,          \* the exception that ended the run, or NoError
    request,      \* the sidebar's widget values and clicked button of this run
    notice        \* the sidebar's st.success / st.error of this run

vars == <<pc, registry, text, raw, findings, highlighted, anonymized,
          df, results, col, idx, df_safe, k, err, request, notice>>

----------------------------------------------------------------------------
(* Bounds *)

MaxLen == 4

MaxFindings == 2

NumRows == 2

CellLen == 2

----------------------------------------------------------------------------
(* Values *)

\* An absent value (None, NaN): a sequence no string of the inputs equals.
NoValue == <<"NaN">>

NoError == "NoError"

\* The characters of the inputs: no "n" and no "a", the characters of str(NaN).
Alphabet ==
    <<"b", "c", "d", "e", "f", "g", "h", "i", "j", "k", "l", "m",
      "o", "p", "q", "r", "s", "t", "u", "v", "w", "x", "y", "z">>

\* The text of length n used as input: pairwise distinct characters, so that
\* every position of the input is recognisable in an output.
Text(n) == SubSeq(Alphabet, 1, n)

Letters == {Alphabet[i] : i \in 1..Len(Alphabet)}

Scores == {80, 95}

\* Two of the predefined recognizers of the engine's registry (lines 131-134).
Builtins == <<[name |-> "EMAIL_ADDRESS", kind |-> "builtin"],
              [name |-> "URL", kind |-> "builtin"]>>

Min(a, b) == IF a <= b THEN a ELSE b

\* Python's s[lo:hi] for non-negative lo, hi: indices beyond the end are clamped.
PySlice(s, lo, hi) ==
    LET l == Min(lo, Len(s))
        h == Min(hi, Len(s))
    IN IF l >= h THEN <<>> ELSE SubSeq(s, l + 1, h)

Reverse(s) == [i \in 1..Len(s) |-> s[Len(s) + 1 - i]]

Range(s) == {s[i] : i \in 1..Len(s)}

----------------------------------------------------------------------------
(* Spans (RecognizerResult: entity_type, start, end, score) *)

Spans(t, types) ==
    {[entity_type |-> ty, start |-> s, end |-> e, score |-> sc] :
        ty \in types, s \in 0..(Len(t) - 1), e \in 1..Len(t), sc \in Scores}

Overlap(a, b) == a.start < b.end /\ b.start < a.end

ContainedIn(a, b) == a.start >= b.start /\ a.end <= b.end

ConflictFree(S) == \A a \in S : \A b \in S : a # b => ~Overlap(a, b)

\* The entity types the registry's recognizers support.
SupportedEntities(reg) == {reg[i].name : i \in 1..Len(reg)}

\* What the registry's recognizers can yield for t: at most max spans inside t,
\* of the supported types, no span of a type inside another span of that type
\* (the engine drops those as duplicates).
RecognizerOutputs(t, reg, max) ==
    LET V == {sp \in Spans(t, SupportedEntities(reg)) : sp.start < sp.end}
        Sets == UNION {{Range(q) : q \in [1..n -> V]} : n \in 0..max}
    IN {S \in Sets : \A a \in S : \A b \in S :
            (a # b /\ a.entity_type = b.entity_type) => ~ContainedIn(a, b)}

\* The lists in which the engine can hand back the span set S: the repository
\* asks for no order.
Orderings(S) ==
    {q \in [1..Cardinality(S) -> S] : \A i, j \in 1..Cardinality(S) : i # j => q[i] # q[j]}

----------------------------------------------------------------------------
(* Placeholders.  A placeholder is three tokens: the literal before the     *)
(* type, the type, the literal after it.  Offsets count tokens, so a span   *)
(* can be shorter than, as long as, or longer than its placeholder.        *)

\* f"**[PII:{f.entity_type}]**"
DisplayPlaceholder(ty) == <<"**[PII:", ty, "]**">>

\* the anonymizer's default operator: "<" + entity_type + ">"
AnonymizerPlaceholder(ty) == <<"<", ty, ">">>

----------------------------------------------------------------------------
(* display_results *)

FindingsInForwardOrder(fs) == fs

\* for f in reversed(findings)
SpliceOrder(fs) == Reverse(fs)

\* highlighted[:f.start] + placeholder + highlighted[f.end:]
SpliceOne(h, f) ==
    PySlice(h, 0, f.start) \o DisplayPlaceholder(f.entity_type) \o PySlice(h, f.end, Len(h))

RECURSIVE HighlightLoop(_, _)
HighlightLoop(h, fs) ==
    IF fs = <<>> THEN h ELSE HighlightLoop(SpliceOne(h, Head(fs)), Tail(fs))

Highlight(original_text, fs) == HighlightLoop(original_text, SpliceOrder(fs))

----------------------------------------------------------------------------
(* The anonymizer engine (external): never raises on conflicting spans; it  *)
(* settles conflicts itself and replaces each span it keeps by the default  *)
(* placeholder.                                                            *)

RECURSIVE ReplaceAll(_, _)
ReplaceAll(t, K) ==
    IF K = {} THEN t
    ELSE LET f == CHOOSE x \in K : \A y \in K : y.start <= x.start
         IN ReplaceAll(PySlice(t, 0, f.start) \o AnonymizerPlaceholder(f.entity_type)
                           \o PySlice(t, f.end, Len(t)),
                       K \ {f})

AnonymizerOutcomes(t, fs) ==
    LET S == Range(fs)
        Kept == {K \in SUBSET S : ConflictFree(K) /\
                    \A a \in S \ K : ~ConflictFree(K \cup {a})}
    IN {ReplaceAll(t, K) : K \in Kept}

----------------------------------------------------------------------------
(* The sidebar of main(): lines 90-128, and PIIDetector's registration      *)

DefaultScore == 80

IsSpace(ch) == ch \in {" ", "\n"}

\* str.strip()
RECURSIVE LStrip(_)
LStrip(x) == IF x # <<>> /\ IsSpace(Head(x)) THEN LStrip(Tail(x)) ELSE x

Strip(x) == Reverse(LStrip(Reverse(LStrip(x))))

\* str.split('\n')
RECURSIVE SplitLines(_, _)
SplitLines(x, line) ==
    IF x = <<>> THEN <<line>>
    ELSE IF Head(x) = "\n" THEN <<line>> \o SplitLines(Tail(x), <<>>)
    ELSE SplitLines(Tail(x), Append(line, Head(x)))

\* [x.strip() for x in whitelist_examples.strip().split('\n') if x.strip()]
Examples(whitelist_examples) ==
    LET lines == SplitLines(Strip(whitelist_examples), <<>>)
        stripped == [i \in 1..Len(lines) |-> Strip(lines[i])]
    IN SelectSeq(stripped, LAMBDA x : x # <<>>)

\* add_custom_whitelist's recognizer dict
WhitelistRecognizer(name, whitelist, score) ==
    [name |-> name, kind |-> "whitelist", rule |-> whitelist, score |-> score]

\* add_custom_regex's recognizer dict
RegexRecognizer(name, pattern, score) ==
    [name |-> name, kind |-> "regex", rule |-> <<pattern>>, score |-> score]

\* self.analyzer.registry.add_recognizer(recognizer)
AddRecognizer(reg, recognizer) == Append(reg, recognizer)

InSidebarOrPass == pc \in {"sidebar", "scan"}

\* The sidebar block runs before the main content of the script, in the same
\* thread: its handlers run when the run is at the sidebar and only then.
InSidebar == pc = "sidebar"

\* if col1.button("Add Whitelist Rule"): lines 115-121
AddWhitelistRule ==
    /\ InSidebar
    /\ request.button = "whitelist"
    /\ IF request.whitelist_name # "" /\ Strip(request.whitelist_examples) # <<>>
       THEN /\ registry' = AddRecognizer(registry,
                    WhitelistRecognizer(request.whitelist_name,
                                        Examples(request.whitelist_examples),
                                        DefaultScore))
            /\ notice' = "success"
       ELSE /\ notice' = "error"
            /\ UNCHANGED registry
    /\ pc' = "scan"
    /\ UNCHANGED <<text, raw, findings, highlighted, anonymized, df, results, col,
                   idx, df_safe, k, err, request>>

\* if col2.button("Add Regex Rule"): lines 123-128
AddRegexRule ==
    /\ InSidebar
    /\ request.button = "regex"
    /\ IF request.regex_name # "" /\ request.regex_pattern # ""
       THEN /\ registry' = AddRecognizer(registry,
                    RegexRecognizer(request.regex_name, request.regex_pattern,
                                    DefaultScore))
            /\ notice' = "success"
       ELSE /\ notice' = "error"
            /\ UNCHANGED registry
    /\ pc' = "scan"
    /\ UNCHANGED <<text, raw, findings, highlighted, anonymized, df, results, col,
                   idx, df_safe, k, err, request>>

\* Neither button was clicked in this run.
NoRuleButton ==
    /\ InSidebar
    /\ request.button = "none"
    /\ pc' = "scan"
    /\ UNCHANGED <<registry, text, raw, findings, highlighted, anonymized, df,
                   results, col, idx, df_safe, k, err, request, notice>>

\* What the user can have typed into the "Examples (one per line)" text area.
ExamplesInputs ==
    {<<>>, <<" ", "\n">>, <<"x">>, <<" ", "x", "\n", "\n", "y", " ">>}

\* What the user can have typed into the "Regex Pattern" input; "(" and "[z-"
\* do not compile as regular expressions.
PatternInputs == {"", "^[A-Za-z0-9]{8,12}$", "(", "[z-"}

\* The widget values of a run: only the form whose button was clicked varies,
\* the other keeps the defaults of lines 95-111.
Requests ==
    {[button |-> "none", whitelist_name |-> "SCHOOL_ID", whitelist_examples |-> <<"x">>,
      regex_name |-> "CUSTOM_ID", regex_pattern |-> "^[A-Za-z0-9]{8,12}$"]}
    \cup {[button |-> "whitelist", whitelist_name |-> n, whitelist_examples |-> e,
           regex_name |-> "CUSTOM_ID", regex_pattern |-> "^[A-Za-z0-9]{8,12}$"] :
             n \in {"", "SCHOOL_ID"}, e \in ExamplesInputs}
    \cup {[button |-> "regex", whitelist_name |-> "SCHOOL_ID", whitelist_examples |-> <<"x">>,
           regex_name |-> n, regex_pattern |-> p] :
             n \in {"", "CUSTOM_ID"}, p \in PatternInputs}

----------------------------------------------------------------------------
(* The text pass of main(): lines 191-198 *)

InitCommon ==
    /\ registry = Builtins
    /\ raw = {}
    /\ findings = <<>>
    /\ highlighted = NoValue
    /\ anonymized = NoValue
    /\ results = <<>>
    /\ col = 1
    /\ idx = 0
    /\ df_safe = <<>>
    /\ k = 1
    /\ err = NoError
    /\ notice = ""
    /\ request \in {r \in Requests : r.button = "none"}

\* results = analyze_text(content)
AnalyzeText ==
    /\ pc = "text_loaded"
    /\ \E S \in RecognizerOutputs(text, registry, MaxFindings) :
          /\ raw' = S
          /\ findings' \in Orderings(S)
    /\ pc' = "analyzed"
    /\ UNCHANGED <<registry, text, highlighted, anonymized, df, results, col,
                   idx, df_safe, k, err, request, notice>>

\* display_results(content, results)
DisplayResults ==
    /\ pc = "analyzed"
    /\ highlighted' = IF findings # <<>> THEN Highlight(text, findings) ELSE NoValue
    /\ pc' = "displayed"
    /\ UNCHANGED <<registry, text, raw, findings, anonymized, df, results, col,
                   idx, df_safe, k, err, request, notice>>

\* anonymized = anonymize_text(content, results)
AnonymizeText ==
    /\ pc = "displayed"
    /\ anonymized' \in AnonymizerOutcomes(text, findings)
    /\ pc' = "done"
    /\ UNCHANGED <<registry, text, raw, findings, highlighted, df, results, col,
                   idx, df_safe, k, err, request, notice>>

InitText ==
    /\ InitCommon
    /\ pc = "text_loaded"
    /\ df = <<>>
    /\ \E n \in 0..MaxLen : text = Text(n)

NextText == AnalyzeText \/ DisplayResults \/ AnonymizeText

SpecText == InitText /\ [][NextText]_vars

----------------------------------------------------------------------------
(* The tabular pass of main(): lines 168-189 *)

ColumnNames == <<"name", "email">>

NumCols == Len(ColumnNames)

\* df.columns.get_loc(col)
ColPos(name) == CHOOSE i \in 1..NumCols : ColumnNames[i] = name

\* The text of n characters that the cell at column position c, row position r
\* (1-based) can hold: characters no other cell holds.
CellText(c, r, n) ==
    LET base == ((c - 1) * NumRows + (r - 1)) * CellLen
    IN SubSeq(Alphabet, base + 1, base + n)

\* str(value): a string is itself, an absent value (NaN) prints as "nan".
Str(value) == IF value = NoValue THEN <<"n", "a", "n">> ELSE value

\* pd.isna
IsNa(value) == value = NoValue

\* df[col].dropna(): the present values of the column, in order.
DropNa(series) == SelectSeq(series, LAMBDA v : ~IsNa(v))

\* The row position (1-based) of the i-th (1-based) present value of a column.
RowOfPresent(series, i) ==
    CHOOSE r \in 1..Len(series) :
        /\ ~IsNa(series[r])
        /\ Cardinality({q \in 1..r : ~IsNa(series[q])}) = i

\* for finding in findings: results.append({...})
ResultRows(colname, i, t, fs) ==
    [j \in 1..Len(fs) |->
        [Column |-> colname, Row |-> i, PII_Type |-> fs[j].entity_type,
         Text |-> PySlice(t, fs[j].start, fs[j].end), Score |-> fs[j].score,
         Start |-> fs[j].start, End |-> fs[j].end]]

\* One iteration of "for idx, value in enumerate(df[col].dropna())".
AnalyzeValue ==
    /\ pc = "scan"
    /\ col <= NumCols
    /\ idx < Len(DropNa(df[col]))
    /\ LET value == DropNa(df[col])[idx + 1]
           t == Str(value)
       IN /\ ~IsNa(value)
          /\ \E S \in RecognizerOutputs(t, registry, MaxFindings - Len(results)) :
               \E fs \in Orderings(S) :
                  /\ results' = results \o ResultRows(ColumnNames[col], idx, t, fs)
                  /\ raw' = raw \cup {[column |-> col,
                                       row |-> RowOfPresent(df[col], idx + 1),
                                       span |-> sp] : sp \in S}
    /\ idx' = idx + 1
    /\ UNCHANGED <<pc, registry, text, findings, highlighted, anonymized, df, col,
                   df_safe, k, err, request, notice>>

\* The inner loop is exhausted: "for col in df.columns" takes the next column.
NextColumn ==
    /\ pc = "scan"
    /\ col <= NumCols
    /\ idx = Len(DropNa(df[col]))
    /\ col' = col + 1
    /\ idx' = 0
    /\ UNCHANGED <<pc, registry, text, raw, findings, highlighted, anonymized, df,
                   results, df_safe, k, err, request, notice>>

\* return pd.DataFrame(results); main then tests "if not results_df.empty" and,
\* when it holds, enters anonymize_dataframe: df_safe = df.copy().
ReturnResults ==
    /\ pc = "scan"
    /\ col > NumCols
    /\ IF results # <<>>
       THEN pc' = "anonymizing" /\ df_safe' = df /\ k' = 1
       ELSE pc' = "skipped" /\ UNCHANGED <<df_safe, k>>
    /\ UNCHANGED <<registry, text, raw, findings, highlighted, anonymized, df,
                   results, col, idx, err, request, notice>>

\* The names bound at module level: the imports of lines 1-12 and the
\* definitions of lines 33-299.
ModuleNames ==
    {"st", "pd", "io", "AnalyzerEngine", "AnonymizerEngine", "NlpEngineProvider",
     "Dict", "List", "Tuple", "re", "PyPDFLoader", "CSVLoader",
     "UnstructuredFileLoader", "RecursiveCharacterTextSplitter", "tempfile", "os",
     "PIIDetector", "detector", "main", "load_file", "analyze_dataframe",
     "analyze_text", "anonymize_dataframe", "anonymize_text", "display_results"}

\* detector.anonymizer.anonymize(text=original_text,
\* analyzer_results=[recognizer_result]).text: a span that ends beyond the text
\* is rejected by the engine.
AnonymizeOne(original_text, r) ==
    IF r.End > Len(original_text) THEN NoValue
    ELSE PySlice(original_text, 0, r.Start) \o AnonymizerPlaceholder(r.PII_Type)
            \o PySlice(original_text, r.End, Len(original_text))

\* One iteration of "for _, row in results_df.iterrows()", and the return after
\* the last one.
AnonymizeRow ==
    /\ pc = "anonymizing"
    /\ k <= Len(results)
    /\ LET r == results[k]
           c == ColPos(r.Column)
           original_text == Str(df_safe[c][r.Row + 1])
           redacted == AnonymizeOne(original_text, r)
       IN IF "RecognizerResult" \notin ModuleNames
          THEN /\ err' = "NameError"
               /\ pc' = "failed"
               /\ UNCHANGED <<df_safe, k>>
          ELSE IF redacted = NoValue
          THEN /\ err' = "InvalidParamError"
               /\ pc' = "failed"
               /\ UNCHANGED <<df_safe, k>>
          ELSE /\ df_safe' = [df_safe EXCEPT ![c][r.Row + 1] = redacted]
               /\ k' = k + 1
               /\ pc' = IF k = Len(results) THEN "anonymized" ELSE "anonymizing"
               /\ UNCHANGED err
    /\ UNCHANGED <<registry, text, raw, findings, highlighted, anonymized, df,
                   results, col, idx, request, notice>>

\* The uploaded tables: every cell is absent (length 0) or holds a text.
Tables ==
    {[c \in 1..NumCols |->
        [r \in 1..NumRows |-> IF L[c][r] = 0 THEN NoValue ELSE CellText(c, r, L[c][r])]] :
        L \in [1..NumCols -> [1..NumRows -> 0..CellLen]]}

InitTable ==
    /\ InitCommon
    /\ pc = "scan"
    /\ text = <<>>
    /\ df \in Tables

NextTable == AnalyzeValue \/ NextColumn \/ ReturnResults \/ AnonymizeRow

SpecTable == InitTable /\ [][NextTable]_vars

----------------------------------------------------------------------------
(* Script runs with the sidebar: a run is the sidebar block, then the        *)
(* tabular pass over the uploaded file; every interaction starts a new run. *)

\* Any interaction after the run has ended re-executes the script: line 82
\* builds a new detector, whose registry holds the predefined recognizers only.
\* The uploaded file stays.
Rerun ==
    /\ pc \in {"skipped", "failed", "anonymized"}
    /\ registry' = Builtins
    /\ raw' = {}
    /\ results' = <<>>
    /\ col' = 1
    /\ idx' = 0
    /\ df_safe' = <<>>
    /\ k' = 1
    /\ err' = NoError
    /\ notice' = ""
    /\ pc' = "sidebar"
    /\ request' \in Requests
    /\ UNCHANGED <<text, findings, highlighted, anonymized, df>>

\* The uploaded tables of the runs with a sidebar: one present cell in each
\* column, of one character.
RulesTables ==
    {t \in Tables : \A c \in 1..NumCols :
        /\ Len(DropNa(t[c])) = 1
        /\ Len(DropNa(t[c])[1]) = 1}

InitRules ==
    /\ registry = Builtins
    /\ raw = {}
    /\ findings = <<>>
    /\ highlighted = NoValue
    /\ anonymized = NoValue
    /\ results = <<>>
    /\ col = 1
    /\ idx = 0
    /\ df_safe = <<>>
    /\ k = 1
    /\ err = NoError
    /\ notice = ""
    /\ pc = "sidebar"
    /\ request \in Requests
    /\ text = <<>>
    /\ df \in RulesTables

NextRules ==
    \/ AddWhitelistRule
    \/ AddRegexRule
    \/ NoRuleButton
    \/ AnalyzeValue
    \/ NextColumn
    \/ ReturnResults
    \/ AnonymizeRow
    \/ Rerun

SpecRules == InitRules /\ [][NextRules]_vars

----------------------------------------------------------------------------
(* Vocabulary of the properties *)

SortedByStart(fs) == \A i \in 1..(Len(fs) - 1) : fs[i].start <= fs[i + 1].start

NoOverlap(fs) == \A i, j \in 1..Len(fs) : i # j => ~Overlap(fs[i], fs[j])

\* The single left-to-right pass: copy the text between the previous span's end
\* and the span's start, emit the span's placeholder, copy the tail at the end.
RECURSIVE RedactWalk(_, _, _, _)
RedactWalk(t, fs, prev, kind) ==
    IF fs = <<>> THEN PySlice(t, prev, Len(t))
    ELSE LET f == Head(fs)
             ph == IF kind = "display" THEN DisplayPlaceholder(f.entity_type)
                   ELSE AnonymizerPlaceholder(f.entity_type)
         IN PySlice(t, prev, f.start) \o ph \o RedactWalk(t, Tail(fs), f.end, kind)

IsLetter(x) == x \in Letters

\* The characters of t that lie in no span of fs, in their order.
Outside(t, fs) ==
    LET keep == {i \in 1..Len(t) :
                    \A j \in 1..Len(fs) : ~(fs[j].start < i /\ i <= fs[j].end)}
        F[i \in 0..Len(t)] ==
            IF i = 0 THEN <<>>
            ELSE IF i \in keep THEN Append(F[i - 1], t[i]) ELSE F[i - 1]
    IN F[Len(t)]

TextPassed == pc \in {"analyzed", "displayed", "done"}

----------------------------------------------------------------------------
(* Properties of the text pass *)

\* C1: the span list analyze_text returns has no two intersecting ranges and is
\* sorted ascending by start offset.
C1_AnalyzeSortedDisjoint ==
    TextPassed => (SortedByStart(findings) /\ NoOverlap(findings))

\* C2: redacting T with analyze(T) leaves every character of T outside all span
\* ranges unchanged and in order, and removes every character inside a range;
\* T itself stays the input text.
C2_RedactKeepsOutside ==
    /\ (pc \in {"displayed", "done"} /\ highlighted # NoValue)
          => SelectSeq(highlighted, IsLetter) = Outside(text, findings)
    /\ pc = "done" => SelectSeq(anonymized, IsLetter) = Outside(text, findings)
    /\ TextPassed => text = Text(Len(text))

\* a beats b: higher score, then the longer span, then the earlier start.
Better(a, b) ==
    \/ a.score > b.score
    \/ a.score = b.score /\ (a.end - a.start) > (b.end - b.start)
    \/ a.score = b.score /\ (a.end - a.start) = (b.end - b.start) /\ a.start < b.start

\* The maximal sets of mutually overlapping spans of S.
Clusters(S) ==
    {K \in SUBSET S :
        /\ K # {}
        /\ \A a \in K : \A b \in K : a # b => Overlap(a, b)
        /\ \A c \in S \ K : \E b \in K : ~Overlap(c, b)}

\* C5: of every maximal cluster of mutually overlapping recognizer spans exactly
\* one span is retained, one that no other span of the cluster beats (higher
\* score, then longer, then earlier start).
C5_ClusterKeepsBest ==
    TextPassed =>
        \A K \in Clusters(raw) :
            \E w \in K : /\ Range(findings) \cap K = {w}
                         /\ \A o \in K : ~Better(o, w)

\* C8: given spans out of ascending start order or overlapping, the redaction
\* fails with OverlappingSpanError and produces no redacted string.
C8_RedactRejectsConflicts ==
    (pc \in {"displayed", "done"} /\ ~(SortedByStart(findings) /\ NoOverlap(findings)))
        => (err = "OverlappingSpanError" /\ highlighted = NoValue /\ anonymized = NoValue)

\* C10: for a non-empty findings list sorted by start and free of overlaps, the
\* reverse-order splice loop of display_results yields the text with each
\* finding's original range replaced by **[PII:<type>]** and everything else
\* unchanged, and leaves original_text as it was.
C10_ReverseSpliceIsRedaction ==
    [][(pc = "analyzed" /\ pc' = "displayed" /\ findings # <<>>
          /\ SortedByStart(findings) /\ NoOverlap(findings))
        => (highlighted' = RedactWalk(text, findings, 0, "display") /\ text' = text)]_vars

\* Two findings with untouched text before, between and after them were spliced.
C10_Witness ==
    /\ pc = "displayed"
    /\ Len(findings) = 2
    /\ SortedByStart(findings) /\ NoOverlap(findings)
    /\ findings[1].end < findings[2].start
    /\ highlighted = RedactWalk(text, findings, 0, "display")
    /\ Len(highlighted) > Len(text)

----------------------------------------------------------------------------
(* Properties of the tabular pass *)

\* analyze_dataframe has returned.
TableScanned == pc \in {"anonymizing", "skipped", "failed", "anonymized"}

\* anonymize_dataframe has ended.
TableAnonymized == pc \in {"failed", "anonymized"}

\* The spans the analyzer returned for the cell at column c, row r.
SpansOfCell(c, r) == {g.span : g \in {h \in raw : h.column = c /\ h.row = r}}

\* The spans of S in ascending order of start.
SortedSeq(S) == CHOOSE q \in Orderings(S) : SortedByStart(q)

\* C3: the sanitized table of the tabular pass has the input's shape and column
\* order, and every cell without a retained span holds exactly its input value.
C3_TableFramePreserved ==
    TableAnonymized =>
        /\ err = NoError
        /\ DOMAIN df_safe = DOMAIN df
        /\ \A c \in 1..NumCols :
              /\ DOMAIN df_safe[c] = DOMAIN df[c]
              /\ \A r \in 1..NumRows :
                    SpansOfCell(c, r) = {} => df_safe[c][r] = df[c][r]

\* C4: analyze_dataframe emits one Finding per retained span of each non-empty
\* cell and none for absent cells, and the cell at a Finding's Column and Row is
\* the one whose text produced it: its text[Start:End] is the Finding's Text.
C4_FindingLocatesItsCell ==
    TableScanned =>
        /\ Len(results) = Cardinality(raw)
        /\ \A i \in 1..Len(results) :
              LET f == results[i]
                  c == ColPos(f.Column)
              IN /\ f.Row + 1 \in 1..NumRows
                 /\ \E g \in raw :
                       /\ g.column = c /\ g.row = f.Row + 1
                       /\ g.span = [entity_type |-> f.PII_Type, start |-> f.Start,
                                    end |-> f.End, score |-> f.Score]
                 /\ PySlice(Str(df[c][f.Row + 1]), f.Start, f.End) = f.Text

\* C9: a cell with k >= 1 retained spans holds, in the sanitized table, its
\* original text redacted once with all k spans, whatever the order of the
\* Findings rows.
C9_CellRedactedWithAllSpans ==
    TableAnonymized =>
        \A c \in 1..NumCols : \A r \in 1..NumRows :
            (SpansOfCell(c, r) # {} /\ ConflictFree(SpansOfCell(c, r))) =>
                /\ err = NoError
                /\ df_safe[c][r] =
                      RedactWalk(df[c][r], SortedSeq(SpansOfCell(c, r)), 0, "anonymizer")

----------------------------------------------------------------------------
(* Properties of the rule registration *)

\* re.compile's verdict on the pattern inputs.
Compiles(pattern) == pattern \notin {"(", "[z-"}

\* The registration the run asks for is malformed: an empty name, a pattern
\* that does not compile, or no non-empty example.
MalformedRequest ==
    \/ /\ request.button = "whitelist"
       /\ (request.whitelist_name = "" \/ Examples(request.whitelist_examples) = <<>>)
    \/ /\ request.button = "regex"
       /\ (request.regex_name = "" \/ ~Compiles(request.regex_pattern))

\* C6: a registration with an empty name, an invalid pattern or no non-empty
\* example is reported as an error and leaves the registry as it was.
C6_MalformedRuleRejected ==
    [][(pc = "sidebar" /\ MalformedRequest)
        => (registry' = registry /\ (notice' = "error" \/ err' = "InvalidRuleError"))]_vars

WholeRecognizer(r) ==
    /\ DOMAIN r = {"name", "kind", "rule", "score"}
    /\ r.name # ""
    /\ r.kind \in {"regex", "whitelist"}
    /\ r.rule # <<>>

====
